---- MODULE Spec2Model ----
(***************************************************************************)
(* file-lock: advisory write-locking of an open file through a scoped      *)
(* Lock handle (src/fd.rs) over the adapter functions lock / unlock        *)
(* (src/functions.rs), which call the external primitives c_lock and       *)
(* c_unlock.                                                               *)
(*                                                                         *)
(* A holder is a process: the primitive records locks per (process, file). *)
(* A handle is one Lock value; it stores nothing but the descriptor.       *)
(***************************************************************************)
EXTENDS Integers, FiniteSets, Sequences, TLC

\* ------------------------------------------------------------------ bounds
NumHandles == 2
MaxErrno   == 40

Handles == 1..NumHandles
Holders == {"p1", "p2"}
Files   == {"f1", "f2"}
NoFile  == "nofile"

\* Descriptor values a caller may pass: two open files and one value that is
\* no open descriptor.
BadFd == -1
FdA   == 3
FdB   == 4
Fds   == {BadFd, FdA, FdB}

\* ------------------------------------------------------- error codes
EAGAIN == 11
EBADF  == 9
EINTR  == 4

\* ------------------------------------------------------- util::Kind, util::Mode
Kinds == {"NonBlocking", "Blocking"}
Modes == {"Read", "Write"}
\* The public contract exercises write-locking only
ExercisedModes == {"Write"}

\* kind.into(): the should_block flag of c_lock
KindInto(kind) == IF kind = "Blocking" THEN 1 ELSE 0
\* mode.into(): the is_write_lock flag of c_lock
ModeInto(mode) == IF mode = "Write" THEN 1 ELSE 0

\* ------------------------------------------------------- results
\* Result<(), Error> and Result<(), errno::Errno>, as records
Ok            == [tag |-> "Ok", code |-> 0]
ErrWouldBlock == [tag |-> "WouldBlock", code |-> 0]
ErrErrno(c)   == [tag |-> "Errno", code |-> c]
NoResult      == [tag |-> "None", code |-> 0]

VARIABLES
    hstate,   \* handle -> "none" | "live" | "dropped"   (lifetime of the Lock value)
    owner,    \* handle -> the process that constructed it
    fd,       \* handle -> Lock.fd
    pc,       \* handle -> "idle" | "waiting" (its thread is inside a blocked c_lock)
    call,     \* handle -> the Mode of the lock call in progress
    acq,      \* handle -> "never" | "locked" | "unlocked": what the caller has seen
    drops,    \* handle -> release attempts made by its scope exit
    lk,       \* process -> file -> "none" | "read" | "write": the OS lock table
    open,     \* process -> its open descriptors
    last      \* the operation that returned last

vars == <<hstate, owner, fd, pc, call, acq, drops, lk, open, last>>

\* ------------------------------------------------------- the OS primitive
\* The file a descriptor of process h refers to
FileOf(h, d) ==
    IF d \in open[h]
    THEN (IF d = FdA THEN "f1" ELSE "f2")
    ELSE NoFile

\* Another process holds a lock on f that excludes the requested one
Conflict(h, f, w) ==
    \E h2 \in Holders \ {h} :
        /\ lk[h2][f] # "none"
        /\ (w = 1 \/ lk[h2][f] = "write")

\* c_lock cannot return yet: a blocking request that is contended
c_lock_blocks(h, d, should_block, is_write_lock) ==
    /\ FileOf(h, d) # NoFile
    /\ Conflict(h, FileOf(h, d), is_write_lock)
    /\ should_block = 1

\* The code c_lock returns when it does not wait
c_lock(h, d, should_block, is_write_lock) ==
    IF FileOf(h, d) = NoFile THEN EBADF
    ELSE IF ~Conflict(h, FileOf(h, d), is_write_lock) THEN 0
    ELSE EAGAIN

\* The lock table after c_lock returned errno
c_lock_table(h, d, is_write_lock, errno) ==
    IF errno = 0
    THEN [lk EXCEPT ![h][FileOf(h, d)] =
             IF is_write_lock = 1 THEN "write" ELSE "read"]
    ELSE lk

\* The code c_unlock returns
c_unlock(h, d) == IF FileOf(h, d) = NoFile THEN EBADF ELSE 0

\* The lock table after c_unlock returned errno
c_unlock_table(h, d, errno) ==
    IF errno = 0 THEN [lk EXCEPT ![h][FileOf(h, d)] = "none"] ELSE lk

\* ------------------------------------------------------- functions.rs
\* A lock whose match reports contention as an ordinary OS error
LockMatch_noWouldBlock(errno) ==
    IF errno = 0 THEN Ok ELSE ErrErrno(errno)

\* A lock whose match reports every failure as contention
LockMatch_allWouldBlock(errno) ==
    IF errno = 0 THEN Ok ELSE ErrWouldBlock

\* A lock whose match has the arms of 0 and EAGAIN exchanged
LockMatch_swapped(errno) ==
    IF errno = 0 THEN ErrWouldBlock
    ELSE IF errno = EAGAIN THEN Ok
    ELSE ErrErrno(errno)

\* lock: the match on the primitive's return code
LockMatch(errno) ==
    IF errno = 0 THEN Ok
    ELSE IF errno = EAGAIN THEN ErrWouldBlock
    ELSE ErrErrno(errno)

\* An unlock whose match lost the arm of 0
UnlockMatch_raw(errno) == ErrErrno(errno)

\* An unlock whose match swallows the error
UnlockMatch_swallow(errno) == Ok

\* unlock: the match on the primitive's return code
UnlockMatch(errno) ==
    IF errno = 0 THEN Ok ELSE ErrErrno(errno)

\* ------------------------------------------------------- what a call leaves
\* The operation that returned last: which handle i, of which process, on which
\* descriptor, with which arguments; the primitive's code and the value
\* returned; whether the call had waited; and, from before the call, what the
\* caller had seen on the handle (was) and the lock table (pre).
Event(op, i, h, d, kind, mode, errno, res, waited) ==
    [op |-> op, i |-> i, who |-> h, d |-> d, kind |-> kind, mode |-> mode,
     errno |-> errno, res |-> res, waited |-> waited,
     was |-> acq[i], pre |-> lk]

\* ------------------------------------------------------- fd.rs
Init ==
    /\ hstate = [i \in Handles |-> "none"]
    /\ owner  = [i \in Handles |-> "p1"]
    /\ fd     = [i \in Handles |-> BadFd]
    /\ pc     = [i \in Handles |-> "idle"]
    /\ call   = [i \in Handles |-> "Write"]
    /\ acq    = [i \in Handles |-> "never"]
    /\ drops  = [i \in Handles |-> 0]
    /\ lk     = [h \in Holders |-> [f \in Files |-> "none"]]
    /\ open   = [h \in Holders |-> {FdA, FdB}]
    /\ last   = [op |-> "none", i |-> 0, who |-> "p1", d |-> BadFd, kind |-> "-",
                 mode |-> "-", errno |-> 0, res |-> NoResult, waited |-> FALSE,
                 was |-> "never",
                 pre |-> [h \in Holders |-> [f \in Files |-> "none"]]]

\* A Lock::new that acquires the write lock while constructing
Lock_new_acquires(i, h, d) ==
    /\ hstate[i] \in {"none", "dropped"}
    /\ hstate' = [hstate EXCEPT ![i] = "live"]
    /\ owner'  = [owner EXCEPT ![i] = h]
    /\ fd'     = [fd EXCEPT ![i] = d]
    /\ drops'  = [drops EXCEPT ![i] = 0]
    /\ lk'     = c_lock_table(h, d, ModeInto("Write"),
                     c_lock(h, d, KindInto("NonBlocking"), ModeInto("Write")))
    /\ last'   = Event("new", i, h, d, "-", "-", 0, NoResult, FALSE)
    /\ UNCHANGED <<pc, call, acq, open>>

\* Lock::new(fd), called by process h
Lock_new(i, h, d) ==
    /\ hstate[i] \in {"none", "dropped"}
    /\ hstate' = [hstate EXCEPT ![i] = "live"]
    /\ owner'  = [owner EXCEPT ![i] = h]
    /\ fd'     = [fd EXCEPT ![i] = d]
    /\ drops'  = [drops EXCEPT ![i] = 0]
    /\ last'   = Event("new", i, h, d, "-", "-", 0, NoResult, FALSE)
    /\ UNCHANGED <<pc, call, acq, lk, open>>

\* functions::lock once c_lock has returned errno
LockReturns(i, kind, mode, errno, waited) ==
    /\ lk'   = c_lock_table(owner[i], fd[i], ModeInto(mode), errno)
    /\ acq'  = [acq EXCEPT ![i] =
                   IF LockMatch(errno) = Ok THEN "locked" ELSE acq[i]]
    /\ pc'   = [pc EXCEPT ![i] = "idle"]
    /\ call' = [call EXCEPT ![i] = "Write"]
    /\ last' = Event("lock", i, owner[i], fd[i], kind, mode, errno,
                     LockMatch(errno), waited)
    /\ UNCHANGED <<hstate, owner, fd, drops, open>>

\* The thread of handle i enters the wait inside c_lock
LockWaits(i, kind, mode) ==
    /\ pc'   = [pc EXCEPT ![i] = "waiting"]
    /\ call' = [call EXCEPT ![i] = mode]
    /\ last' = Event("wait", i, owner[i], fd[i], kind, mode, 0, NoResult, TRUE)
    /\ UNCHANGED <<hstate, owner, fd, acq, drops, lk, open>>

\* A Lock::lock that drops its kind and always asks without blocking
Lock_lock_ignoreKind(i, kind, mode) ==
    /\ hstate[i] = "live"
    /\ pc[i] = "idle"
    /\ LockReturns(i, kind, mode,
           c_lock(owner[i], fd[i], KindInto("NonBlocking"), ModeInto(mode)), FALSE)

\* A Lock::lock that remembers an earlier unlock() and refuses to lock again
Lock_lock_latched(i, kind, mode) ==
    /\ hstate[i] = "live"
    /\ pc[i] = "idle"
    /\ IF acq[i] = "unlocked"
       THEN LockReturns(i, kind, mode, EBADF, FALSE)
       ELSE IF c_lock_blocks(owner[i], fd[i], KindInto(kind), ModeInto(mode))
       THEN LockWaits(i, kind, mode)
       ELSE LockReturns(i, kind, mode,
                c_lock(owner[i], fd[i], KindInto(kind), ModeInto(mode)), FALSE)

\* Lock::lock(kind, mode)
Lock_lock(i, kind, mode) ==
    /\ hstate[i] = "live"
    /\ pc[i] = "idle"
    /\ IF c_lock_blocks(owner[i], fd[i], KindInto(kind), ModeInto(mode))
       THEN LockWaits(i, kind, mode)
       ELSE LockReturns(i, kind, mode,
                c_lock(owner[i], fd[i], KindInto(kind), ModeInto(mode)), FALSE)

\* The blocked c_lock is granted the lock and lock returns
Lock_lock_granted(i) ==
    /\ pc[i] = "waiting"
    /\ ~Conflict(owner[i], FileOf(owner[i], fd[i]), ModeInto(call[i]))
    /\ LockReturns(i, "Blocking", call[i], 0, TRUE)

\* The OS interrupts the wait of the blocked c_lock and lock returns
Lock_lock_interrupted(i) ==
    /\ pc[i] = "waiting"
    /\ LockReturns(i, "Blocking", call[i], EINTR, TRUE)

\* A Lock::unlock that reports success without calling the primitive
Lock_unlock_noCall(i) ==
    /\ hstate[i] = "live"
    /\ pc[i] = "idle"
    /\ acq'  = [acq EXCEPT ![i] = IF acq[i] = "locked" THEN "unlocked" ELSE acq[i]]
    /\ last' = Event("unlock", i, owner[i], fd[i], "-", "-", 0, Ok, FALSE)
    /\ UNCHANGED <<hstate, owner, fd, pc, call, drops, lk, open>>

\* A Lock::unlock that counts nested lock calls: after a repeated lock the
\* first unlock only undoes the repetition
Lock_unlock_nested(i) ==
    /\ hstate[i] = "live"
    /\ pc[i] = "idle"
    /\ lk'   = IF last.op = "lock" /\ last.i = i /\ last.was = "locked"
                  /\ last.res = Ok
               THEN lk
               ELSE c_unlock_table(owner[i], fd[i], c_unlock(owner[i], fd[i]))
    /\ acq'  = [acq EXCEPT ![i] = IF acq[i] = "locked" THEN "unlocked" ELSE acq[i]]
    /\ last' = Event("unlock", i, owner[i], fd[i], "-", "-",
                     c_unlock(owner[i], fd[i]),
                     UnlockMatch(c_unlock(owner[i], fd[i])), FALSE)
    /\ UNCHANGED <<hstate, owner, fd, pc, call, drops, open>>

\* Lock::unlock()
Lock_unlock(i) ==
    /\ hstate[i] = "live"
    /\ pc[i] = "idle"
    /\ lk'   = c_unlock_table(owner[i], fd[i], c_unlock(owner[i], fd[i]))
    /\ acq'  = [acq EXCEPT ![i] = IF acq[i] = "locked" THEN "unlocked" ELSE acq[i]]
    /\ last' = Event("unlock", i, owner[i], fd[i], "-", "-",
                     c_unlock(owner[i], fd[i]),
                     UnlockMatch(c_unlock(owner[i], fd[i])), FALSE)
    /\ UNCHANGED <<hstate, owner, fd, pc, call, drops, open>>

\* A Drop that forgets the release
Lock_drop_noUnlock(i) ==
    /\ hstate[i] = "live"
    /\ pc[i] = "idle"
    /\ drops'  = [drops EXCEPT ![i] = drops[i] + 1]
    /\ hstate' = [hstate EXCEPT ![i] = "dropped"]
    /\ owner'  = [owner EXCEPT ![i] = "p1"]
    /\ fd'     = [fd EXCEPT ![i] = BadFd]
    /\ acq'    = [acq EXCEPT ![i] = "never"]
    /\ last'   = Event("drop", i, owner[i], fd[i], "-", "-", 0, NoResult, FALSE)
    /\ UNCHANGED <<pc, call, lk, open>>

\* A Drop that hands the error of the release on: self.unlock().unwrap()
Lock_drop_unwrap(i) ==
    /\ hstate[i] = "live"
    /\ pc[i] = "idle"
    /\ lk'     = c_unlock_table(owner[i], fd[i], c_unlock(owner[i], fd[i]))
    /\ drops'  = [drops EXCEPT ![i] = drops[i] + 1]
    /\ hstate' = [hstate EXCEPT ![i] = "dropped"]
    /\ owner'  = [owner EXCEPT ![i] = "p1"]
    /\ fd'     = [fd EXCEPT ![i] = BadFd]
    /\ acq'    = [acq EXCEPT ![i] = "never"]
    /\ last'   = Event("drop", i, owner[i], fd[i], "-", "-",
                       c_unlock(owner[i], fd[i]),
                       IF c_unlock(owner[i], fd[i]) = 0 THEN NoResult
                       ELSE UnlockMatch(c_unlock(owner[i], fd[i])), FALSE)
    /\ UNCHANGED <<pc, call, open>>

\* A Drop that also closes the descriptor, as an owner of it would
Lock_drop_closes(i) ==
    /\ hstate[i] = "live"
    /\ pc[i] = "idle"
    /\ lk'     = c_unlock_table(owner[i], fd[i], c_unlock(owner[i], fd[i]))
    /\ open'   = [open EXCEPT ![owner[i]] = @ \ {fd[i]}]
    /\ drops'  = [drops EXCEPT ![i] = drops[i] + 1]
    /\ hstate' = [hstate EXCEPT ![i] = "dropped"]
    /\ owner'  = [owner EXCEPT ![i] = "p1"]
    /\ fd'     = [fd EXCEPT ![i] = BadFd]
    /\ acq'    = [acq EXCEPT ![i] = "never"]
    /\ last'   = Event("drop", i, owner[i], fd[i], "-", "-",
                       c_unlock(owner[i], fd[i]), NoResult, FALSE)
    /\ UNCHANGED <<pc, call>>

\* A Drop that releases every lock of its process, not only the one on self.fd
Lock_drop_releasesAll(i) ==
    /\ hstate[i] = "live"
    /\ pc[i] = "idle"
    /\ lk'     = [lk EXCEPT ![owner[i]] = [f \in Files |-> "none"]]
    /\ drops'  = [drops EXCEPT ![i] = drops[i] + 1]
    /\ hstate' = [hstate EXCEPT ![i] = "dropped"]
    /\ owner'  = [owner EXCEPT ![i] = "p1"]
    /\ fd'     = [fd EXCEPT ![i] = BadFd]
    /\ acq'    = [acq EXCEPT ![i] = "never"]
    /\ last'   = Event("drop", i, owner[i], fd[i], "-", "-",
                       c_unlock(owner[i], fd[i]), NoResult, FALSE)
    /\ UNCHANGED <<pc, call, open>>

\* Drop for Lock: self.unlock().ok()
Lock_drop(i) ==
    /\ hstate[i] = "live"
    /\ pc[i] = "idle"
    /\ lk'     = c_unlock_table(owner[i], fd[i], c_unlock(owner[i], fd[i]))
    /\ drops'  = [drops EXCEPT ![i] = drops[i] + 1]
    /\ hstate' = [hstate EXCEPT ![i] = "dropped"]
    /\ owner'  = [owner EXCEPT ![i] = "p1"]
    /\ fd'     = [fd EXCEPT ![i] = BadFd]
    /\ acq'    = [acq EXCEPT ![i] = "never"]
    /\ last'   = Event("drop", i, owner[i], fd[i], "-", "-",
                       c_unlock(owner[i], fd[i]), NoResult, FALSE)
    /\ UNCHANGED <<pc, call, open>>

Next ==
    \/ \E i \in Handles, h \in Holders, d \in Fds : Lock_new(i, h, d)
    \/ \E i \in Handles, kind \in Kinds, mode \in ExercisedModes :
           Lock_lock(i, kind, mode)
    \/ \E i \in Handles : Lock_lock_granted(i)
    \/ \E i \in Handles : Lock_lock_interrupted(i)
    \/ \E i \in Handles : Lock_unlock(i)
    \/ \E i \in Handles : Lock_drop(i)

Spec == Init /\ [][Next]_vars

\* A handle that has acquired the lock releases it, by unlock() or scope exit
Release(i) ==
    /\ acq[i] = "locked"
    /\ (Lock_unlock(i) \/ Lock_drop(i))

\* Fair scheduling: the OS grants a waiting request if the file stays free, and
\* every handle that acquired a lock goes on to release it.
FairSpec ==
    /\ Spec
    /\ \A i \in Handles : WF_vars(Lock_lock_granted(i))
    /\ \A i \in Handles : WF_vars(Release(i))

\* ------------------------------------------------------- properties
\* The file the last operation's descriptor refers to
EvFile == FileOf(last.who, last.d)

\* In lock table t, a process other than h holds a lock on f
OthersHold(t, h, f) == \E h2 \in Holders \ {h} : t[h2][f] # "none"

\* In lock table t, a process other than h holds the write lock on f
OthersHoldWrite(t, h, f) == \E h2 \in Holders \ {h} : t[h2][f] = "write"

\* What lock(NonBlocking, Write) would return now to process h on file f
TryWrite(h, f) ==
    LockMatch(c_lock(h, IF f = "f1" THEN FdA ELSE FdB,
                     KindInto("NonBlocking"), ModeInto("Write")))

\* C1: when a handle leaves scope after a successful lock and without an
\* explicit unlock(), its process holds no lock on the file any more, and a
\* NonBlocking Write lock attempted right then by a second handle (of any
\* process, no third process holding the file) returns Ok(()).
C1_DropReleases ==
    (last.op = "drop" /\ last.was = "locked" /\ EvFile # NoFile) =>
        /\ lk[last.who][EvFile] = "none"
        /\ \A h2 \in Holders :
               (\A h3 \in Holders \ {last.who, h2} : lk[h3][EvFile] = "none")
                   => TryWrite(h2, EvFile) = Ok

C1_Witness ==
    /\ last.op = "drop" /\ last.was = "locked" /\ EvFile # NoFile
    /\ last.pre[last.who][EvFile] = "write"
    /\ lk[last.who][EvFile] = "none"
    /\ \E h2 \in Holders \ {last.who} : TryWrite(h2, EvFile) = Ok

\* C2: lock(NonBlocking, Write) on a file that another process holds
\* write-locked returns Err(WouldBlock) in the call itself; a NonBlocking call
\* never enters the wait.
C2_NonBlockingWouldBlock ==
    /\ (last.op = "lock" /\ last.kind = "NonBlocking" /\ last.mode = "Write"
            /\ EvFile # NoFile /\ OthersHoldWrite(last.pre, last.who, EvFile))
         => (last.res = ErrWouldBlock /\ ~last.waited)
    /\ (last.op = "wait") => last.kind = "Blocking"
    /\ (last.op = "lock" /\ last.kind = "NonBlocking") => ~last.waited

C2_Witness ==
    /\ last.op = "lock" /\ last.kind = "NonBlocking" /\ last.mode = "Write"
    /\ EvFile # NoFile /\ OthersHoldWrite(last.pre, last.who, EvFile)
    /\ last.res = ErrWouldBlock

\* C3 as stated: a contended lock(Blocking, Write) does not return while the
\* other process still holds the write lock, and returns Ok(()) once it has
\* been released.
C3_Original ==
    (last.op = "lock" /\ last.kind = "Blocking" /\ last.mode = "Write"
        /\ last.waited)
      => (~OthersHoldWrite(last.pre, last.who, EvFile) /\ last.res = Ok)

\* C3 (amended): a contended lock(Blocking, Write) does not return Ok(()) while
\* another process holds the lock; before the release it returns only when the
\* OS interrupts the wait, with Err(Errno(code)) and never WouldBlock; once the
\* lock has been released the call can return, and a return that was not
\* interrupted is Ok(()) with the write lock held by the caller.
C3_BlockingWaitsForRelease ==
    /\ (last.op = "lock" /\ last.kind = "Blocking" /\ last.mode = "Write"
            /\ EvFile # NoFile /\ OthersHold(last.pre, last.who, EvFile))
         => /\ last.res = ErrErrno(last.errno)
            /\ last.errno \notin {0, EAGAIN}
            /\ last.waited
            /\ lk = last.pre
    /\ (last.op = "lock" /\ last.kind = "Blocking" /\ last.mode = "Write"
            /\ last.waited /\ last.errno = 0)
         => /\ last.res = Ok
            /\ ~OthersHold(last.pre, last.who, EvFile)
            /\ lk[last.who][EvFile] = "write"
    /\ \A i \in Handles :
           (pc[i] = "waiting"
               /\ ~OthersHold(lk, owner[i], FileOf(owner[i], fd[i])))
             => ENABLED Lock_lock_granted(i)
    /\ (last.op = "wait") =>
           (EvFile # NoFile /\ OthersHold(last.pre, last.who, EvFile))

C3_Witness ==
    /\ last.op = "lock" /\ last.kind = "Blocking" /\ last.mode = "Write"
    /\ last.waited /\ last.res = Ok
    /\ lk[last.who][EvFile] = "write"

\* C4: by the time a handle has left scope the lock it acquired is released,
\* whether or not the caller called unlock(); scope exit makes exactly one
\* release attempt; a release attempt that finds no lock held changes no lock
\* state, and one that finds the lock releases that lock and nothing else.
C4_ReleasedOnceByScopeExit ==
    /\ \A i \in Handles : hstate[i] = "dropped" => drops[i] = 1
    /\ \A i \in Handles : hstate[i] = "live" => drops[i] = 0
    /\ (last.op = "drop" /\ last.was \in {"locked", "unlocked"}
            /\ EvFile # NoFile)
         => lk[last.who][EvFile] = "none"
    /\ (last.op \in {"drop", "unlock"} /\ EvFile # NoFile
            /\ last.pre[last.who][EvFile] = "none")
         => lk = last.pre
    /\ (last.op \in {"drop", "unlock"} /\ EvFile = NoFile) => lk = last.pre
    /\ (last.op \in {"drop", "unlock"} /\ EvFile # NoFile)
         => lk = [last.pre EXCEPT ![last.who][EvFile] = "none"]

C4_Witness ==
    /\ last.op = "drop" /\ last.was = "unlocked" /\ EvFile # NoFile
    /\ last.pre[last.who][EvFile] = "none"
    /\ lk = last.pre
    /\ drops[last.i] = 1

\* C5: a lock call with kind = Blocking returns Ok(()) or Err(Errno(code))
\* with the primitive's code, never Err(WouldBlock); WouldBlock is the result
\* of a NonBlocking call that found the file held by another process.
C5_BlockingNeverWouldBlock ==
    /\ (last.op = "lock" /\ last.kind = "Blocking")
         => \/ (last.res = Ok /\ last.errno = 0)
            \/ (last.res = ErrErrno(last.errno) /\ last.errno # 0)
    /\ (last.op = "lock" /\ last.res = ErrWouldBlock)
         => /\ last.kind = "NonBlocking"
            /\ ~last.waited
            /\ EvFile # NoFile
            /\ OthersHold(last.pre, last.who, EvFile)

C5_Witness ==
    /\ last.op = "lock" /\ last.kind = "Blocking"
    /\ last.res = ErrErrno(EINTR)

\* C6: a lock call that returns Err changes no lock state and leaves what the
\* caller has seen on the handle as it was.
C6_FailedLockNoOp ==
    (last.op = "lock" /\ last.res # Ok) =>
        /\ lk = last.pre
        /\ acq[last.i] = last.was

C6_Witness ==
    /\ last.op = "lock" /\ last.res = ErrWouldBlock /\ EvFile # NoFile
    /\ OthersHoldWrite(lk, last.who, EvFile)
    /\ lk = last.pre

\* C7: the value lock returns is a function of the primitive's code alone:
\* 0 gives Ok(()), EAGAIN gives Err(WouldBlock), any other code c gives
\* Err(Errno(c)); a call on an invalid descriptor returns Err(Errno(EBADF)).
C7_ResultFromCode ==
    /\ \A c \in 0..MaxErrno :
           /\ (LockMatch(c) = Ok) <=> (c = 0)
           /\ (LockMatch(c) = ErrWouldBlock) <=> (c = EAGAIN)
           /\ (c \notin {0, EAGAIN}) =>
                  (LockMatch(c).tag = "Errno" /\ LockMatch(c).code = c)
    /\ (last.op = "lock") =>
           /\ (last.res = Ok) <=> (last.errno = 0)
           /\ (last.res = ErrWouldBlock) <=> (last.errno = EAGAIN)
           /\ (last.errno \notin {0, EAGAIN}) =>
                  (last.res.tag = "Errno" /\ last.res.code = last.errno)
    /\ (last.op = "lock" /\ EvFile = NoFile) => last.res = ErrErrno(EBADF)

C7_Witness ==
    /\ last.op = "lock" /\ EvFile = NoFile
    /\ last.res = ErrErrno(EBADF)

\* C8 as stated: unlock() on a handle that never successfully acquired a lock
\* returns Ok(()) and changes no lock state.
C8_Original ==
    (last.op = "unlock" /\ last.was = "never") =>
        (last.res = Ok /\ lk = last.pre)

\* C8 (amended): unlock() on a handle over an open descriptor that never
\* successfully acquired a lock returns Ok(()); it changes no lock state when
\* its process holds no lock on the file, and otherwise releases that one lock
\* only. Over a value that is no open descriptor it returns Err with the
\* primitive's code and changes no lock state.
C8_UnlockNeverAcquired ==
    /\ (last.op = "unlock" /\ last.was = "never" /\ EvFile # NoFile)
         => /\ last.res = Ok
            /\ (last.pre[last.who][EvFile] = "none" => lk = last.pre)
            /\ lk = [last.pre EXCEPT ![last.who][EvFile] = "none"]
    /\ (last.op = "unlock" /\ last.was = "never" /\ EvFile = NoFile)
         => /\ last.res = ErrErrno(EBADF)
            /\ lk = last.pre

C8_Witness ==
    /\ last.op = "unlock" /\ last.was = "never" /\ EvFile # NoFile
    /\ last.pre[last.who][EvFile] = "none"
    /\ last.res = Ok
    /\ lk = last.pre

\* C9: on a descriptor of a file that no other process holds locked,
\* lock(NonBlocking, Write) followed at once by unlock() on the same handle
\* returns Ok(()) both times and leaves the file unlocked.
C9_LockThenUnlock ==
    [][ (/\ last.op = "lock" /\ last.kind = "NonBlocking" /\ last.mode = "Write"
         /\ EvFile # NoFile
         /\ ~OthersHold(last.pre, last.who, EvFile)
         /\ last'.op = "unlock" /\ last'.i = last.i)
        => (/\ last.res = Ok
            /\ last'.res = Ok
            /\ \A h \in Holders : lk'[h][EvFile] = "none") ]_vars

C9_Witness ==
    /\ last.op = "unlock" /\ last.was = "locked" /\ EvFile # NoFile
    /\ last.pre[last.who][EvFile] = "write"
    /\ last.res = Ok
    /\ \A h \in Holders : lk[h][EvFile] = "none"

\* C10: a lock call on an open descriptor whose file no other process holds
\* locked returns Ok(()) with the lock held, whatever happened on the handle
\* before: never locked, locked, or locked and unlocked again.
C10_RoundTrip ==
    (last.op = "lock" /\ ~last.waited /\ EvFile # NoFile
        /\ ~OthersHold(last.pre, last.who, EvFile))
      => /\ last.res = Ok
         /\ lk[last.who][EvFile] = "write"
         /\ acq[last.i] = "locked"

C10_Witness ==
    /\ last.op = "lock" /\ last.was = "unlocked" /\ EvFile # NoFile
    /\ last.pre[last.who][EvFile] = "none"
    /\ last.res = Ok
    /\ lk[last.who][EvFile] = "write"

\* C11 as stated: a NonBlocking lock call on a file whose lock another process
\* holds returns at once with an Errno error.
C11_Original ==
    (last.op = "lock" /\ last.kind = "NonBlocking" /\ EvFile # NoFile
        /\ OthersHold(last.pre, last.who, EvFile))
      => last.res.tag = "Errno"

\* What lock does in the case of C11: the call returns at once, without
\* waiting, with Err(WouldBlock); the primitive's EAGAIN is not handed on as
\* Errno.
C11_NonBlockingReturnsWouldBlock ==
    (last.op = "lock" /\ last.kind = "NonBlocking" /\ EvFile # NoFile
        /\ OthersHold(last.pre, last.who, EvFile))
      => /\ last.errno = EAGAIN
         /\ last.res.tag = "WouldBlock"
         /\ last.res # ErrErrno(EAGAIN)
         /\ ~last.waited
         /\ pc[last.i] = "idle"

C11_Witness ==
    /\ last.op = "lock" /\ last.kind = "NonBlocking" /\ EvFile # NoFile
    /\ OthersHold(last.pre, last.who, EvFile)
    /\ last.errno = EAGAIN
    /\ last.res.tag = "WouldBlock"
    /\ pc[last.i] = "idle"

\* C12: an explicit unlock() returns Ok(()) exactly when the release primitive
\* returned 0 and otherwise Err with the primitive's code unchanged; it never
\* returns WouldBlock, not even for EAGAIN, and the error is what the caller
\* sees.
C12_UnlockResultFromCode ==
    /\ \A c \in 0..MaxErrno :
           /\ (UnlockMatch(c) = Ok) <=> (c = 0)
           /\ (c # 0) => UnlockMatch(c) = [tag |-> "Errno", code |-> c]
           /\ UnlockMatch(c).tag # "WouldBlock"
    /\ (last.op = "unlock") =>
           /\ (last.res = Ok) <=> (last.errno = 0)
           /\ (last.errno # 0) =>
                  (last.res.tag = "Errno" /\ last.res.code = last.errno
                      /\ lk = last.pre)
           /\ last.res.tag \in {"Ok", "Errno"}

C12_Witness ==
    /\ last.op = "unlock" /\ last.errno = EBADF
    /\ last.res = ErrErrno(EBADF)

\* C13: the release made by scope exit never surfaces a failure: when the
\* primitive returns an error during drop, no value reaches the caller, the
\* drop completes, the lock table is as before, and the handle's slot is as
\* after any other drop.
C13_DropDiscardsError ==
    (last.op = "drop") =>
        /\ last.res = NoResult
        /\ hstate[last.i] = "dropped"
        /\ drops[last.i] = 1
        /\ pc[last.i] = "idle"
        /\ acq[last.i] = "never"
        /\ (last.errno # 0) => lk = last.pre
        /\ ENABLED Lock_new(last.i, last.who, last.d)

C13_Witness ==
    /\ last.op = "drop" /\ last.errno = EBADF
    /\ last.res = NoResult
    /\ hstate[last.i] = "dropped"
    /\ lk = last.pre

\* The descriptors every process has open from the start
OpenAtStart == {FdA, FdB}

\* Handle i is live, of process h, on a descriptor of file f
HandleOn(i, h, f) ==
    /\ hstate[i] = "live"
    /\ owner[i] = h
    /\ FileOf(h, fd[i]) = f

\* C14: no handle operation (new, lock, unlock, scope exit) closes or opens a
\* descriptor: every process has exactly the descriptors open it started with.
C14_NeverCloses ==
    \A h \in Holders : open[h] = OpenAtStart

C14_Witness ==
    /\ last.op = "drop" /\ last.was = "locked"
    /\ last.d \in open[last.who]
    /\ \A h \in Holders : open[h] = OpenAtStart

\* C15: Lock::new calls no primitive and acquires nothing: it leaves the lock
\* table as it was, a process that could take the write lock before the
\* construction can take it after, and every lock in the table was taken by a
\* lock call on some live handle, never by a construction.
C15_NewAcquiresNothing ==
    /\ (last.op = "new") =>
           /\ lk = last.pre
           /\ last.errno = 0 /\ last.res = NoResult
           /\ acq[last.i] = "never"
           /\ pc[last.i] = "idle"
    /\ (last.op = "new" /\ EvFile # NoFile) =>
           \A h2 \in Holders \ {last.who} :
               ~OthersHold(last.pre, h2, EvFile) => TryWrite(h2, EvFile) = Ok
    /\ \A h \in Holders, f \in Files :
           lk[h][f] # "none" =>
               \E j \in Handles : HandleOn(j, h, f) /\ acq[j] = "locked"

C15_Witness ==
    /\ last.op = "new" /\ EvFile # NoFile
    /\ lk = last.pre
    /\ hstate[last.i] = "live" /\ acq[last.i] = "never"
    /\ \E h2 \in Holders \ {last.who} : TryWrite(h2, EvFile) = Ok

\* C16: at most one process holds the write lock on a file; a lock call
\* returns Ok(()) only to a process that then holds the write lock alone; two
\* handles of different processes never both hold the write lock on one file.
C16_MutualExclusion ==
    /\ \A f \in Files :
           Cardinality({h \in Holders : lk[h][f] # "none"}) <= 1
    /\ (last.op = "lock" /\ last.res = Ok) =>
           /\ EvFile # NoFile
           /\ lk[last.who][EvFile] = "write"
           /\ ~OthersHold(lk, last.who, EvFile)
    /\ \A i, j \in Handles, f \in Files :
           (/\ HandleOn(i, owner[i], f) /\ HandleOn(j, owner[j], f)
            /\ owner[i] # owner[j]
            /\ acq[i] = "locked" /\ lk[owner[i]][f] = "write")
             => lk[owner[j]][f] = "none"

C16_Witness ==
    \E i, j \in Handles, f \in Files :
        /\ HandleOn(i, owner[i], f) /\ HandleOn(j, owner[j], f)
        /\ owner[i] # owner[j]
        /\ acq[i] = "locked" /\ lk[owner[i]][f] = "write"
        /\ last.op = "lock" /\ last.i = j /\ last.res = ErrWouldBlock
        /\ lk[owner[j]][f] = "none"

\* C17 as stated: a release (unlock() or scope exit) through a handle that
\* never successfully acquired a lock leaves every lock in place.
C17_Original ==
    (last.op \in {"unlock", "drop"} /\ last.was = "never") => lk = last.pre

\* C17 (amended): a release through a handle that never successfully acquired
\* a lock leaves in place every lock of other processes and every lock of its
\* own process on other files; the lock its own process holds on the file of
\* the handle's descriptor, taken through another handle, is released.
C17_ReleaseByStranger ==
    (last.op \in {"unlock", "drop"} /\ last.was = "never") =>
        /\ \A h \in Holders, f \in Files :
               (h # last.who \/ f # EvFile) => lk[h][f] = last.pre[h][f]
        /\ (EvFile # NoFile) => lk[last.who][EvFile] = "none"

C17_Witness ==
    /\ last.op \in {"unlock", "drop"} /\ last.was = "never" /\ EvFile # NoFile
    /\ last.pre[last.who][EvFile] = "write"
    /\ lk[last.who][EvFile] = "none"
    /\ \E j \in Handles \ {last.i} :
           HandleOn(j, last.who, EvFile) /\ fd[j] = last.d /\ acq[j] = "locked"

\* Handle i waits inside lock(Blocking, Write)
Waiting(i) == pc[i] = "waiting"

\* The file handle i waits for is held by no other process
FreeFor(i) == ~OthersHold(lk, owner[i], FileOf(owner[i], fd[i]))

C19_NoNesting ==
    [][ /\ (last'.op = "lock" /\ last'.was = "locked" /\ ~last'.waited
              /\ lk[last'.who][FileOf(last'.who, last'.d)] = "write")
           => (/\ last'.res = Ok
               /\ lk' = lk)
        /\ (/\ last.op = "lock" /\ last.was = "locked" /\ last.res = Ok
            /\ last'.op \in {"unlock", "drop"} /\ last'.i = last.i)
           => (/\ lk'[last.who][EvFile] = "none"
               /\ last'.errno = 0) ]_vars

C19_Witness ==
    /\ last.op = "lock" /\ last.was = "locked"
    /\ ~last.waited
    /\ last.pre[last.who][EvFile] = "write"
    /\ last.res = Ok
    /\ lk = last.pre

====
